---------------------------- MODULE Spec2Model ----------------------------
(***************************************************************************)
(* CXL DVSEC support of drivers/pci/cxl.c: the capability locator          *)
(* (pci_find_cxl_capability), discovery (pci_cxl_init) and the feature     *)
(* gate (pci_cxl_enable_disable_feature with its four exported toggles).   *)
(*                                                                         *)
(* Configuration space is a map from byte address to 16-bit word.  The     *)
(* extended-capability list is a sequence of entries in chain order, each  *)
(* with its position and its capability id; the two DVSEC header words of  *)
(* an entry live in configuration space at pos+4 and pos+8.                *)
(* Every register access of the feature gate is one step, so that the      *)
(* accesses of two callers can interleave.                                 *)
(***************************************************************************)
EXTENDS Integers, Naturals, Sequences, FiniteSets, TLC

(* ------------------------------ bounds -------------------------------- *)
\* longest extended-capability list enumerated for the locator
MaxChain == 3
\* longest extended-capability list enumerated for the feature gate
MaxGateChain == 2
\* pci_cxl_init runs at most this many times on one device
MaxInitRuns == 3

(* ------------------------- program constants -------------------------- *)
PCI_DVSEC_VENDOR_ID_CXL == 7832
PCI_DVSEC_ID_CXL_DEV == 0
PCI_CXL_CAP == 10
PCI_CXL_CTRL == 12
PCI_CXL_STS == 14
PCI_CXL_CTRL2 == 16
PCI_CXL_STS2 == 18
PCI_CXL_LOCK == 20
PCI_CXL_CACHE == 1
PCI_CXL_IO == 2
PCI_CXL_MEM == 4
PCI_CXL_VIRAL == 16384
PCI_CXL_CONFIG_LOCK == 1
\* <linux/pci_regs.h> values used by the file
PCI_EXT_CAP_ID_DVSEC == 35
PCI_DVSEC_HEADER1 == 4
PCI_DVSEC_HEADER2 == 8
PCI_EXP_TYPE_RC_END == 9
EINVAL == 22
PCIBIOS_SUCCESSFUL == 0
PCIBIOS_DEVICE_NOT_FOUND == 134
PCIBIOS_BAD_REGISTER_NUMBER == 135
PCIBIOS_SET_FAILED == 136
\* a u16 holds 16 bits
WordBits == 16
WordMax == 65535

(* --------------------------- 16-bit words ----------------------------- *)
Word == 0..WordMax

RECURSIVE BitAndN(_, _, _)
BitAndN(a, b, n) ==
    IF n = 0 THEN 0
    ELSE (IF a % 2 = 1 /\ b % 2 = 1 THEN 1 ELSE 0)
         + 2 * BitAndN(a \div 2, b \div 2, n - 1)

\* a & b on u16
BitAnd(a, b) == BitAndN(a, b, WordBits)
\* a | b on u16
BitOr(a, b) == a + b - BitAnd(a, b)
\* (u16)~a
BitNot(a) == WordMax - a
\* BIT(n) set in a
HasBits(a, mask) == BitAnd(a, mask) = mask

(* ------------------- the device and its config space ------------------ *)
VARIABLES
    chain,      \* extended-capability list, in chain order: [pos, cap]
    cfg,        \* configuration space: byte address -> u16
    is_pcie,    \* pci_is_pcie(dev)
    devfn,      \* dev->devfn
    pcie_type,  \* pci_pcie_type(dev)
    cxl_cap,    \* dev->cxl_cap, the cached capability offset
    cxl,        \* pci_cxl_init's local cxl of its last run (NoResult: not set)
    init_runs,  \* number of pci_cxl_init runs so far
    init_log,   \* addresses read by the last pci_cxl_init run, in order
    pc,         \* per caller: position in pci_cxl_enable_disable_feature
    op,         \* per caller: [name, enable, feature] of the call
    lock,       \* per caller: local lock of pci_cxl_unlock / pci_cxl_lock
    reg,        \* per caller: local reg
    ret,        \* per caller: local ret
    status,     \* per caller: what the exported toggle returned (<<>>: void)
    log,        \* per caller: register accesses of the call, in order
    pre,        \* per caller: control and lock register when the call began
    rt          \* enable-then-disable tracker of the last two finished calls

vars == <<chain, cfg, is_pcie, devfn, pcie_type, cxl_cap, cxl, init_runs,
          init_log, pc, op, lock, reg, ret, status, log, pre, rt>>
devVars == <<chain, is_pcie, devfn, pcie_type>>
callVars == <<pc, op, lock, reg, ret, status, log, pre, rt>>

Callers == {1, 2}
NoResult == -1

\* position of the i-th entry of the list: 0x40, 0x60, 0x80, ...
Slot(i) == 64 + 32 * (i - 1)
Slots == {Slot(i) : i \in 1..MaxChain}
RegOffsets == {PCI_CXL_CAP, PCI_CXL_CTRL, PCI_CXL_STS, PCI_CXL_CTRL2,
               PCI_CXL_STS2, PCI_CXL_LOCK}
Addrs == {b + o : b \in Slots \cup {0},
                  o \in RegOffsets \cup {PCI_DVSEC_HEADER1, PCI_DVSEC_HEADER2}}

\* what a list entry can be: its capability id and the two words after
\* the generic header
CapIds == {PCI_EXT_CAP_ID_DVSEC, 1}
VendorWords == {PCI_DVSEC_VENDOR_ID_CXL, 4660}
IdWords == {PCI_DVSEC_ID_CXL_DEV, 2}
EntryKinds == [cap : CapIds, vendor : VendorWords, id : IdWords]
GateKinds == [cap : {PCI_EXT_CAP_ID_DVSEC}, vendor : VendorWords,
              id : {PCI_DVSEC_ID_CXL_DEV}]
ListsOf(kinds, n) == UNION {[1..k -> kinds] : k \in 0..n}

\* initial register contents
CapFlagsInit == {16437}
CtrlInit == {0, 3, 16434}
LockInit == {0, 1, 32769}

ChainOf(desc) == [i \in 1..Len(desc) |-> [pos |-> Slot(i), cap |-> desc[i].cap]]

CfgOf(desc, cap0, ctrl0, lock0) ==
    [a \in Addrs |->
        LET o == a % 32
            i == ((a - o) - 64) \div 32 + 1
        IN  IF o = PCI_DVSEC_HEADER1
            THEN IF a >= 64 /\ i <= Len(desc) THEN desc[i].vendor ELSE 0
            ELSE IF o = PCI_DVSEC_HEADER2
            THEN IF a >= 64 /\ i <= Len(desc) THEN desc[i].id ELSE 0
            ELSE IF o = PCI_CXL_CAP THEN cap0
            ELSE IF o = PCI_CXL_CTRL THEN ctrl0
            ELSE IF o = PCI_CXL_LOCK THEN lock0
            ELSE 0]

(* ------------------------- capability locator ------------------------- *)
\* index in the list of the entry at position pos (0: none)
IndexOf(ch, pos) ==
    IF \E i \in 1..Len(ch) : ch[i].pos = pos
    THEN CHOOSE i \in 1..Len(ch) : ch[i].pos = pos
    ELSE 0

\* pci_find_next_ext_capability(dev, start, cap): the first entry of kind
\* cap after the entry at start (from the head of the list when start is
\* 0); 0 at the end of the list
pci_find_next_ext_capability(ch, start, cap) ==
    LET from == IF start = 0 THEN 1 ELSE IndexOf(ch, start) + 1
        later == {i \in from..Len(ch) : ch[i].cap = cap}
    IN  IF later = {} THEN 0
        ELSE ch[CHOOSE i \in later : \A j \in later : i <= j].pos

\* the test of the two header words
DvsecMatchVendorOnly(vendor, id) == vendor = PCI_DVSEC_VENDOR_ID_CXL
DvsecMatchAny(vendor, id) == TRUE
DvsecMatch(vendor, id) ==
    vendor = PCI_DVSEC_VENDOR_ID_CXL /\ id = PCI_DVSEC_ID_CXL_DEV

\* the while loop, entered with the position of the last entry looked at
RECURSIVE FindFrom(_, _, _)
FindFrom(ch, mem, pos) ==
    LET nxt == pci_find_next_ext_capability(ch, pos, PCI_EXT_CAP_ID_DVSEC)
    IN  IF nxt = 0 THEN 0
        ELSE IF DvsecMatch(mem[nxt + PCI_DVSEC_HEADER1],
                           mem[nxt + PCI_DVSEC_HEADER2])
        THEN nxt
        ELSE FindFrom(ch, mem, nxt)

\* the loop given up at the first vendor-specific entry
FindFirstOnly(ch, mem) ==
    LET nxt == pci_find_next_ext_capability(ch, 0, PCI_EXT_CAP_ID_DVSEC)
    IN  IF nxt # 0 /\ DvsecMatch(mem[nxt + PCI_DVSEC_HEADER1],
                                 mem[nxt + PCI_DVSEC_HEADER2])
        THEN nxt ELSE 0
\* the loop entered at the cached offset instead of the head of the list
FindAfterCached(ch, mem) == FindFrom(ch, mem, cxl_cap)
pci_find_cxl_capability(ch, mem) == FindFrom(ch, mem, 0)

\* addresses the loop reads, in order
RECURSIVE FindReads(_, _, _)
FindReads(ch, mem, pos) ==
    LET nxt == pci_find_next_ext_capability(ch, pos, PCI_EXT_CAP_ID_DVSEC)
    IN  IF nxt = 0 THEN <<>>
        ELSE <<nxt + PCI_DVSEC_HEADER1, nxt + PCI_DVSEC_HEADER2>>
             \o (IF DvsecMatch(mem[nxt + PCI_DVSEC_HEADER1],
                               mem[nxt + PCI_DVSEC_HEADER2])
                 THEN <<>> ELSE FindReads(ch, mem, nxt))

(* ------------------------------ topology ------------------------------ *)
\* dev->devfn != 0 || pci_pcie_type(dev) != PCI_EXP_TYPE_RC_END
TopologyOnlyDevfn(df, ty) == df # 0
UnsupportedTopology(df, ty) == df # 0 \/ ty # PCI_EXP_TYPE_RC_END

(* ------------------------------ discovery ----------------------------- *)
\* the six reads of the report
ReportReads(base) ==
    <<base + PCI_CXL_CAP, base + PCI_CXL_CTRL, base + PCI_CXL_STS,
      base + PCI_CXL_CTRL2, base + PCI_CXL_STS2, base + PCI_CXL_LOCK>>

pci_cxl_init ==
    /\ init_runs < MaxInitRuns
    /\ init_runs' = init_runs + 1
    /\ IF ~is_pcie \/ UnsupportedTopology(devfn, pcie_type)
       THEN /\ cxl' = NoResult
            /\ init_log' = <<>>
            /\ UNCHANGED cxl_cap
       ELSE LET found == pci_find_cxl_capability(chain, cfg)
                seen == FindReads(chain, cfg, 0)
            IN  /\ cxl' = found
                /\ IF found = 0
                   THEN /\ init_log' = seen
                        /\ UNCHANGED cxl_cap
                   ELSE /\ cxl_cap' = found
                        /\ init_log' = seen \o ReportReads(found)
    /\ UNCHANGED <<devVars, cfg, callVars>>

(* ----------------------------- transport ------------------------------ *)
\* return codes of pci_read_config_word / pci_write_config_word
ReadRcs == {PCIBIOS_SUCCESSFUL, PCIBIOS_DEVICE_NOT_FOUND,
            PCIBIOS_BAD_REGISTER_NUMBER}
WriteRcs == {PCIBIOS_SUCCESSFUL, PCIBIOS_DEVICE_NOT_FOUND, PCIBIOS_SET_FAILED}
\* what a failed read may leave in the caller's u16
FailedReadWords == {0, WordMax}
ConcRcs == {PCIBIOS_SUCCESSFUL, PCIBIOS_DEVICE_NOT_FOUND}

\* the word pci_read_config_word stores through its pointer
Delivered(mem, addr, rc, g) == IF rc = PCIBIOS_SUCCESSFUL THEN mem[addr] ELSE g

\* a write that reaches the device: the control registers are read-only
\* while the configuration lock of their region is set
HwWrite(mem, base, off, val) ==
    IF /\ off \in {PCI_CXL_CTRL, PCI_CXL_CTRL2}
       /\ HasBits(mem[base + PCI_CXL_LOCK], PCI_CXL_CONFIG_LOCK)
    THEN mem
    ELSE [mem EXCEPT ![base + off] = val]

\* pci_write_config_word: a failed write does not reach the device
Written(mem, base, off, val, rc) ==
    IF rc = PCIBIOS_SUCCESSFUL THEN HwWrite(mem, base, off, val) ELSE mem

Access(kind, addr, val, rc) == [k |-> kind, addr |-> addr, val |-> val, rc |-> rc]

(* ----------------------------- feature gate --------------------------- *)
NoOp == [name |-> "none", enable |-> FALSE, feature |-> 0]
NoRt == [stage |-> "none", feature |-> 0, bit |-> FALSE]

InProgress(c) == pc[c] \notin {"idle", "done"}
Clean(l) == \A i \in 1..Len(l) : l[i].rc = PCIBIOS_SUCCESSFUL

\* lock &= ~PCI_CXL_CONFIG_LOCK
UnlockValue(l) == BitAnd(l, BitNot(PCI_CXL_CONFIG_LOCK))
\* lock |= PCI_CXL_CONFIG_LOCK
LockValueKeep(l) == l
LockValue(l) == BitOr(l, PCI_CXL_CONFIG_LOCK)
\* if (enable) reg |= feature; else reg &= ~feature;
ModifyAlwaysSet(enable, r, feature) == BitOr(r, feature)
ModifyWhole(enable, r, feature) == IF enable THEN feature ELSE 0
ModifySwapped(enable, r, feature) ==
    IF enable THEN BitAnd(r, BitNot(feature)) ELSE BitOr(r, feature)
Modify(enable, r, feature) ==
    IF enable THEN BitOr(r, feature) ELSE BitAnd(r, BitNot(feature))

\* what the exported toggle hands back: the enable functions return ret,
\* the disable functions are void
StatusAlways(enable, r) == <<r>>
StatusOf(enable, r) == IF enable THEN <<r>> ELSE <<>>

\* if (!dev->cxl_cap) return -EINVAL;
CapPresentAlways(cap) == FALSE
CapAbsent(cap) == cap = 0

\* entry of pci_cxl_enable_disable_feature: the two precondition checks
Call(c, name, enable, feature) ==
    /\ pc[c] \in {"idle", "done"}
    /\ op' = [op EXCEPT ![c] = [name |-> name, enable |-> enable,
                                 feature |-> feature]]
    /\ log' = [log EXCEPT ![c] = <<>>]
    /\ lock' = [lock EXCEPT ![c] = 0]
    /\ reg' = [reg EXCEPT ![c] = 0]
    /\ pre' = [pre EXCEPT ![c] = [base |-> cxl_cap,
                                   ctrl |-> cfg[cxl_cap + PCI_CXL_CTRL],
                                   lock |-> cfg[cxl_cap + PCI_CXL_LOCK]]]
    /\ IF CapAbsent(cxl_cap) \/ UnsupportedTopology(devfn, pcie_type)
       THEN /\ ret' = [ret EXCEPT ![c] = -EINVAL]
            /\ status' = [status EXCEPT ![c] = StatusOf(enable, -EINVAL)]
            /\ pc' = [pc EXCEPT ![c] = "done"]
            /\ rt' = NoRt
       ELSE /\ ret' = [ret EXCEPT ![c] = 0]
            /\ status' = [status EXCEPT ![c] = <<>>]
            /\ pc' = [pc EXCEPT ![c] = "unlock_rd"]
            /\ rt' = IF rt.stage = "enabled" /\ ~enable /\ rt.feature = feature
                     THEN rt ELSE NoRt
    /\ UNCHANGED <<devVars, cfg, cxl_cap, cxl, init_runs, init_log>>

pci_cxl_mem_enable(c) == Call(c, "mem_enable", TRUE, PCI_CXL_MEM)
pci_cxl_mem_disable(c) == Call(c, "mem_disable", FALSE, PCI_CXL_MEM)
pci_cxl_cache_enable(c) == Call(c, "cache_enable", TRUE, PCI_CXL_CACHE)
pci_cxl_cache_disable(c) == Call(c, "cache_disable", FALSE, PCI_CXL_CACHE)

\* pci_cxl_unlock: pci_read_config_word(dev, cxl + PCI_CXL_LOCK, &lock)
UnlockRead(c, rc, g) ==
    /\ pc[c] = "unlock_rd"
    /\ LET a == cxl_cap + PCI_CXL_LOCK
           v == Delivered(cfg, a, rc, g)
       IN  /\ lock' = [lock EXCEPT ![c] = v]
           /\ log' = [log EXCEPT ![c] = Append(@, Access("rd", a, v, rc))]
    /\ pc' = [pc EXCEPT ![c] = "unlock_wr"]
    /\ UNCHANGED <<devVars, cfg, cxl_cap, cxl, init_runs, init_log,
                   op, reg, ret, status, pre, rt>>

\* pci_cxl_unlock: clear the bit and write the word back
UnlockWrite(c, rc) ==
    /\ pc[c] = "unlock_wr"
    /\ LET v == UnlockValue(lock[c])
       IN  /\ lock' = [lock EXCEPT ![c] = v]
           /\ cfg' = Written(cfg, cxl_cap, PCI_CXL_LOCK, v, rc)
           /\ log' = [log EXCEPT ![c] =
                        Append(@, Access("wr", cxl_cap + PCI_CXL_LOCK, v, rc))]
    /\ pc' = [pc EXCEPT ![c] = "ctrl_rd"]
    /\ UNCHANGED <<devVars, cxl_cap, cxl, init_runs, init_log,
                   op, reg, ret, status, pre, rt>>

\* if (ret) goto lock;
AfterCtrlReadReturn(rc) == IF rc # 0 THEN "done" ELSE "ctrl_wr"
AfterCtrlReadIgnore(rc) == "ctrl_wr"
AfterCtrlRead(rc) == IF rc # 0 THEN "lock_rd" ELSE "ctrl_wr"

\* ret = pci_read_config_word(dev, cxl + PCI_CXL_CTRL, &reg); if (ret) goto lock;
CtrlRead(c, rc, g) ==
    /\ pc[c] = "ctrl_rd"
    /\ LET a == cxl_cap + PCI_CXL_CTRL
           v == Delivered(cfg, a, rc, g)
       IN  /\ reg' = [reg EXCEPT ![c] = v]
           /\ log' = [log EXCEPT ![c] = Append(@, Access("rd", a, v, rc))]
    /\ ret' = [ret EXCEPT ![c] = rc]
    /\ pc' = [pc EXCEPT ![c] = AfterCtrlRead(rc)]
    /\ UNCHANGED <<devVars, cfg, cxl_cap, cxl, init_runs, init_log,
                   op, lock, status, pre, rt>>

\* modify reg, then ret = pci_write_config_word(dev, cxl + PCI_CXL_CTRL, reg)
CtrlWrite(c, rc) ==
    /\ pc[c] = "ctrl_wr"
    /\ LET v == Modify(op[c].enable, reg[c], op[c].feature)
       IN  /\ reg' = [reg EXCEPT ![c] = v]
           /\ cfg' = Written(cfg, cxl_cap, PCI_CXL_CTRL, v, rc)
           /\ log' = [log EXCEPT ![c] =
                        Append(@, Access("wr", cxl_cap + PCI_CXL_CTRL, v, rc))]
    /\ ret' = [ret EXCEPT ![c] = rc]
    /\ pc' = [pc EXCEPT ![c] = "lock_rd"]
    /\ UNCHANGED <<devVars, cxl_cap, cxl, init_runs, init_log,
                   op, lock, status, pre, rt>>

\* pci_cxl_lock: pci_read_config_word(dev, cxl + PCI_CXL_LOCK, &lock)
LockRead(c, rc, g) ==
    /\ pc[c] = "lock_rd"
    /\ LET a == cxl_cap + PCI_CXL_LOCK
           v == Delivered(cfg, a, rc, g)
       IN  /\ lock' = [lock EXCEPT ![c] = v]
           /\ log' = [log EXCEPT ![c] = Append(@, Access("rd", a, v, rc))]
    /\ pc' = [pc EXCEPT ![c] = "lock_wr"]
    /\ UNCHANGED <<devVars, cfg, cxl_cap, cxl, init_runs, init_log,
                   op, reg, ret, status, pre, rt>>

\* pci_cxl_lock(dev); return ret;  pci_cxl_lock is void, so the code of its
\* accesses does not reach ret
GateReturnSurfacing(r, lockRc) == IF lockRc # 0 THEN lockRc ELSE r
GateReturn(r, lockRc) == r

\* pci_cxl_lock: set the bit and write the word back; return ret
LockWrite(c, rc) ==
    /\ pc[c] = "lock_wr"
    /\ LET v == LockValue(lock[c])
           l == Append(log[c], Access("wr", cxl_cap + PCI_CXL_LOCK, v, rc))
       IN  /\ lock' = [lock EXCEPT ![c] = v]
           /\ cfg' = Written(cfg, cxl_cap, PCI_CXL_LOCK, v, rc)
           /\ log' = [log EXCEPT ![c] = l]
           /\ rt' = IF ~Clean(l) THEN NoRt
                    ELSE IF op[c].enable
                    THEN [stage |-> "enabled", feature |-> op[c].feature,
                          bit |-> HasBits(pre[c].ctrl, op[c].feature)]
                    ELSE IF rt.stage = "enabled" /\ rt.feature = op[c].feature
                    THEN [rt EXCEPT !.stage = "disabled"]
                    ELSE NoRt
    /\ ret' = [ret EXCEPT ![c] = GateReturn(ret[c], rc)]
    /\ status' = [status EXCEPT ![c] =
                    StatusOf(op[c].enable, GateReturn(ret[c], rc))]
    /\ pc' = [pc EXCEPT ![c] = "done"]
    /\ UNCHANGED <<devVars, cxl_cap, cxl, init_runs, init_log,
                   op, reg, pre>>

(* --------------------------- specifications --------------------------- *)
DevFns == {0, 8}
PcieTypes == {PCI_EXP_TYPE_RC_END, 0}

InitWith(descs) ==
    /\ \E desc \in descs, cap0 \in CapFlagsInit, ctrl0 \in CtrlInit,
          lock0 \in LockInit :
          /\ chain = ChainOf(desc)
          /\ cfg = CfgOf(desc, cap0, ctrl0, lock0)
    /\ is_pcie \in BOOLEAN
    /\ devfn \in DevFns
    /\ pcie_type \in PcieTypes
    /\ ~is_pcie => pcie_type = 0
    /\ cxl_cap = 0
    /\ cxl = NoResult
    /\ init_runs = 0
    /\ init_log = <<>>
    /\ pc = [c \in Callers |-> "idle"]
    /\ op = [c \in Callers |-> NoOp]
    /\ lock = [c \in Callers |-> 0]
    /\ reg = [c \in Callers |-> 0]
    /\ ret = [c \in Callers |-> 0]
    /\ status = [c \in Callers |-> <<>>]
    /\ log = [c \in Callers |-> <<>>]
    /\ pre = [c \in Callers |-> [base |-> 0, ctrl |-> 0, lock |-> 0]]
    /\ rt = NoRt

\* one caller at a time, lock-register accesses succeed
Init == InitWith(ListsOf(GateKinds, MaxGateChain))

Next ==
    \/ pci_cxl_init
    \/ pci_cxl_mem_enable(1)
    \/ pci_cxl_mem_disable(1)
    \/ pci_cxl_cache_enable(1)
    \/ pci_cxl_cache_disable(1)
    \/ UnlockRead(1, PCIBIOS_SUCCESSFUL, 0)
    \/ UnlockWrite(1, PCIBIOS_SUCCESSFUL)
    \/ \E rc \in ReadRcs, g \in FailedReadWords : CtrlRead(1, rc, g)
    \/ \E rc \in WriteRcs : CtrlWrite(1, rc)
    \/ LockRead(1, PCIBIOS_SUCCESSFUL, 0)
    \/ LockWrite(1, PCIBIOS_SUCCESSFUL)

Spec == Init /\ [][Next]_vars

\* the locator on every list, discovery only
InitLocator ==
    /\ InitWith(ListsOf(EntryKinds, MaxChain))
    /\ cfg[PCI_CXL_CTRL] = 3
    /\ cfg[PCI_CXL_LOCK] = 1

NextLocator == pci_cxl_init

SpecLocator == InitLocator /\ [][NextLocator]_vars

\* two callers, one call each, whose register accesses interleave
ConcKinds == [cap : {PCI_EXT_CAP_ID_DVSEC}, vendor : {PCI_DVSEC_VENDOR_ID_CXL},
              id : {PCI_DVSEC_ID_CXL_DEV}]
InitConc ==
    /\ InitWith(ListsOf(ConcKinds, MaxGateChain))
    /\ is_pcie /\ devfn = 0 /\ pcie_type = PCI_EXP_TYPE_RC_END
    /\ cfg[PCI_CXL_CTRL] \in {0, 16434}
    /\ cfg[PCI_CXL_LOCK] = 1

NextConc ==
    \/ pci_cxl_init
    \/ \E c \in Callers :
          \/ pc[c] = "idle" /\ pci_cxl_mem_enable(c)
          \/ pc[c] = "idle" /\ pci_cxl_mem_disable(c)
          \/ pc[c] = "idle" /\ pci_cxl_cache_enable(c)
          \/ pc[c] = "idle" /\ pci_cxl_cache_disable(c)
          \/ UnlockRead(c, PCIBIOS_SUCCESSFUL, 0)
          \/ UnlockWrite(c, PCIBIOS_SUCCESSFUL)
          \/ \E rc \in ConcRcs : CtrlRead(c, rc, 0)
          \/ \E rc \in ConcRcs : CtrlWrite(c, rc)
          \/ LockRead(c, PCIBIOS_SUCCESSFUL, 0)
          \/ LockWrite(c, PCIBIOS_SUCCESSFUL)

SpecConc == InitConc /\ [][NextConc]_vars

\* one caller at a time, every register access may fail
InitFault ==
    /\ InitWith(ListsOf(ConcKinds, MaxGateChain))
    /\ cfg[PCI_CXL_CTRL] \in {0, 16434}

NextFault ==
    \/ pci_cxl_init
    \/ pci_cxl_mem_enable(1)
    \/ pci_cxl_mem_disable(1)
    \/ pci_cxl_cache_enable(1)
    \/ pci_cxl_cache_disable(1)
    \/ \E rc \in ConcRcs, g \in FailedReadWords : UnlockRead(1, rc, g)
    \/ \E rc \in ConcRcs : UnlockWrite(1, rc)
    \/ \E rc \in ConcRcs : CtrlRead(1, rc, 0)
    \/ \E rc \in ConcRcs : CtrlWrite(1, rc)
    \/ \E rc \in ConcRcs, g \in FailedReadWords : LockRead(1, rc, g)
    \/ \E rc \in ConcRcs : LockWrite(1, rc)

SpecFault == InitFault /\ [][NextFault]_vars

(* ------------------------------- claims -------------------------------- *)
\* the call of caller c has returned
Returned(c) == pc[c] = "done"
\* the call of caller c began with a cached capability offset
HadBase(c) == pre[c].base # 0
CtrlAddr(c) == pre[c].base + PCI_CXL_CTRL
LockAddr(c) == pre[c].base + PCI_CXL_LOCK
\* the accesses of a log that are of kind k at address a
Hits(l, k, a) == {i \in 1..Len(l) : l[i].k = k /\ l[i].addr = a}
Failed(l, k, a) == \E i \in Hits(l, k, a) : l[i].rc # 0
Writes(l) == {i \in 1..Len(l) : l[i].k = "wr"}
LockBitSet(c) == cfg[LockAddr(c)] % 2 = 1

\* C1: whenever a call of the feature gate that has a capability region to
\* work on returns, bit 0 of the lock register at base+0x14 is set, also
\* when the control-register read or write failed (lock-register accesses
\* succeed in this specification).
C1_LockSetOnReturn ==
    (Returned(1) /\ HadBase(1)) => LockBitSet(1)

\* a call found the lock clear, had its control read or write fail, and
\* returned
C1_Witness ==
    /\ Returned(1) /\ HadBase(1)
    /\ pre[1].lock % 2 = 0
    /\ ret[1] # 0
    /\ Failed(log[1], "wr", CtrlAddr(1))
    /\ LockBitSet(1)

\* C2 as stated: after a clean enable followed by the matching clean
\* disable, the target bit of the control register equals its value before
\* the enable.
C2_RoundTripAsStated ==
    rt.stage = "disabled" =>
        (HasBits(cfg[cxl_cap + PCI_CXL_CTRL], rt.feature) <=> rt.bit)

\* C2 amended: after a clean enable followed by the matching clean disable
\* the target bit is clear; it equals its value before the enable when that
\* value was clear, and differs from it when that value was set.
C2_RoundTripClears ==
    rt.stage = "disabled" =>
        /\ ~HasBits(cfg[cxl_cap + PCI_CXL_CTRL], rt.feature)
        /\ ~rt.bit =>
             (HasBits(cfg[cxl_cap + PCI_CXL_CTRL], rt.feature) <=> rt.bit)

\* memory-access enabled then disabled from a control register that had
\* bit 2 clear
C2_Witness ==
    /\ rt.stage = "disabled" /\ rt.feature = PCI_CXL_MEM /\ ~rt.bit
    /\ Returned(1) /\ op[1].name = "mem_disable"
    /\ cfg[cxl_cap + PCI_CXL_CTRL] = 16434

\* C3: a call on a device whose devfn is not 0 or whose role is not
\* root-complex-integrated-endpoint returns -EINVAL from the gate, issues no
\* register access, and leaves configuration space as it was.
C3_UnsupportedTopology ==
    (Returned(1) /\ (devfn # 0 \/ pcie_type # PCI_EXP_TYPE_RC_END)) =>
        /\ ret[1] = -EINVAL
        /\ Writes(log[1]) = {}
        /\ log[1] = <<>>
        /\ cfg[CtrlAddr(1)] = pre[1].ctrl
        /\ cfg[LockAddr(1)] = pre[1].lock
        /\ \A b \in Slots : /\ cfg[b + PCI_CXL_CTRL] = cfg[PCI_CXL_CTRL]
                            /\ cfg[b + PCI_CXL_LOCK] = cfg[PCI_CXL_LOCK]

\* a PCIe device at devfn 0 that is not a root-complex integrated endpoint,
\* with a CXL capability in its list, after discovery ran and an enable
\* returned
C3_Witness ==
    /\ Returned(1) /\ op[1].name = "mem_enable"
    /\ is_pcie /\ devfn = 0 /\ pcie_type # PCI_EXP_TYPE_RC_END
    /\ init_runs > 0
    /\ Len(chain) > 0 /\ cfg[chain[1].pos + PCI_DVSEC_HEADER1] = 7832
    /\ status[1] = <<-22>>

\* C4: a call made while the cached capability offset is 0 returns -EINVAL
\* from the gate and issues no register access, whatever the devfn and role.
C4_CapabilityAbsent ==
    (Returned(1) /\ pre[1].base = 0) =>
        /\ ret[1] = -EINVAL
        /\ log[1] = <<>>

\* an eligible device on which discovery has not run, and one on which it
\* ran and found nothing: here the second
C4_Witness ==
    /\ Returned(1) /\ pre[1].base = 0
    /\ is_pcie /\ devfn = 0 /\ pcie_type = PCI_EXP_TYPE_RC_END
    /\ init_runs > 0 /\ cxl = 0
    /\ ret[1] = -22

\* C8: when the preconditions hold, an enable toggle returns non-zero
\* exactly when the control read failed, or the control read succeeded and
\* the control write failed; after a failed read it returns the read's
\* code and no control write was issued; a disable toggle returns nothing.
C8_ErrorPropagation ==
    (Returned(1) /\ HadBase(1)) =>
        LET l == log[1]
            rd == Hits(l, "rd", CtrlAddr(1))
            wr == Hits(l, "wr", CtrlAddr(1))
            rdFailed == \E i \in rd : l[i].rc # 0
            wrFailed == \E i \in wr : l[i].rc # 0
        IN  /\ Cardinality(rd) = 1
            /\ IF op[1].enable
               THEN /\ Len(status[1]) = 1
                    /\ status[1][1] # 0 <=> (rdFailed \/ (~rdFailed /\ wrFailed))
                    /\ rdFailed => /\ wr = {}
                                   /\ \E i \in rd : status[1] = <<l[i].rc>>
                    /\ (~rdFailed /\ wrFailed) =>
                          \E i \in wr : status[1] = <<l[i].rc>>
               ELSE status[1] = <<>>

\* an enable whose control read failed with one code, and the caller got it
C8_Witness ==
    /\ Returned(1) /\ HadBase(1) /\ op[1].name = "cache_enable"
    /\ status[1] = <<135>>
    /\ Failed(log[1], "rd", CtrlAddr(1))

\* list indices of the vendor-specific entries whose two header words are
\* the key (0x1e98, 0x0)
KeyEntries ==
    {i \in 1..Len(chain) :
        /\ chain[i].cap = 35
        /\ cfg[chain[i].pos + 4] = 7832
        /\ cfg[chain[i].pos + 8] = 0}
\* the locator ran in the last discovery
Located == cxl # NoResult

\* C5: when the list holds an entry with the key, the locator returns the
\* position of the first such entry in chain order, however many
\* vendor-specific entries with another key come before it.
C5_FirstMatch ==
    (Located /\ KeyEntries # {}) =>
        \E i \in KeyEntries :
            /\ cxl = chain[i].pos
            /\ \A j \in KeyEntries : i <= j

\* the list [{0x1234,0x0}@0x40, {0x1e98,0x0}@0x60]: the locator returned 0x60
C5_Witness ==
    /\ Located
    /\ Len(chain) = 2
    /\ chain[1].cap = 35 /\ chain[1].pos = 64
    /\ cfg[64 + 4] = 4660 /\ cfg[64 + 8] = 0
    /\ chain[2].cap = 35 /\ chain[2].pos = 96
    /\ cfg[96 + 4] = 7832 /\ cfg[96 + 8] = 0
    /\ cxl = 96

\* C6: the locator returns 0 exactly when the list holds no entry with the
\* key, the empty list included.
C6_NotFound ==
    Located => (cxl = 0 <=> KeyEntries = {})

\* a list of three vendor-specific entries, none with the key, and the
\* locator returned 0
C6_Witness ==
    /\ Located /\ cxl = 0
    /\ Len(chain) = 3
    /\ \A i \in 1..3 : chain[i].cap = 35
    /\ cfg[64 + 4] = 7832 /\ cfg[64 + 8] = 2
    /\ cfg[96 + 4] = 4660 /\ cfg[96 + 8] = 0

\* C7: a non-zero position returned by the locator is the position of a
\* vendor-specific entry whose vendor word is 0x1e98 and whose sub-id word
\* is 0x0.
C7_CompoundKey ==
    (Located /\ cxl # 0) =>
        \E i \in 1..Len(chain) :
            /\ chain[i].pos = cxl
            /\ chain[i].cap = 35
            /\ cfg[cxl + 4] = 7832
            /\ cfg[cxl + 8] = 0

\* two entries with the right vendor and another sub-id, or the right
\* sub-id and another vendor, were passed over before the one returned
C7_Witness ==
    /\ Located /\ cxl = 128
    /\ Len(chain) = 3
    /\ chain[1].cap = 35 /\ cfg[64 + 4] = 7832 /\ cfg[64 + 8] = 2
    /\ chain[2].cap = 35 /\ cfg[96 + 4] = 4660 /\ cfg[96 + 8] = 0

\* C9: nothing orders the control accesses of two callers: the value a
\* caller writes to the control register is the value it read earlier with
\* its own bit changed, whatever was written in between, and a write that
\* reaches the register while the lock bit is clear replaces the register's
\* content by that value (last write wins).
C9_LastWriteWins ==
    [][\A c \in Callers :
         (pc[c] = "ctrl_wr" /\ pc'[c] = "lock_rd") =>
            LET r == log[c][Len(log[c])]
                w == log'[c][Len(log'[c])]
                a == pre[c].base + PCI_CXL_CTRL
            IN  /\ r.k = "rd" /\ r.addr = a /\ r.rc = 0
                /\ w.k = "wr" /\ w.addr = a
                /\ w.val = IF op[c].enable
                           THEN BitOr(r.val, op[c].feature)
                           ELSE BitAnd(r.val, WordMax - op[c].feature)
                /\ cfg'[a] = IF w.rc = 0 /\ cfg[LockAddr(c)] % 2 = 0
                             THEN w.val ELSE cfg[a]]_vars

\* caller 1 enabled memory access and caller 2 cache access on a control
\* register that had neither bit, both were told success, and only one of
\* the two bits is set
C9_Witness ==
    /\ Returned(1) /\ Returned(2)
    /\ op[1].name = "mem_enable" /\ op[2].name = "cache_enable"
    /\ status[1] = <<0>> /\ status[2] = <<0>>
    /\ Clean(log[1]) /\ Clean(log[2])
    /\ pre[1].ctrl = 16434 /\ pre[2].ctrl = 16434
    /\ cfg[CtrlAddr(1)] = 16434 + 4

\* C10: once pci_cxl_init has run, a further run leaves the cached offset
\* and the locator's result as they are, and no run writes a register.
C10_DiscoveryIdempotent ==
    [][init_runs' # init_runs =>
         /\ cfg' = cfg
         /\ init_runs >= 1 => (cxl_cap' = cxl_cap /\ cxl' = cxl)]_vars

\* discovery ran three times on a device with the capability
C10_Witness ==
    /\ init_runs >= 3
    /\ cxl_cap = 96 /\ cxl = 96

\* access i of a log is of kind k at offset off of the region at base b
Is(l, i, k, b, off) == l[i].k = k /\ l[i].addr = b + off

\* the order of the accesses of a call on the region at base b
InOrder(l, b) ==
    /\ Len(l) <= 6
    /\ \A i \in 1..Len(l) :
          LET ok == l[3].rc = 0
          IN  CASE i = 1 -> Is(l, 1, "rd", b, 20)
                [] i = 2 -> Is(l, 2, "wr", b, 20) /\ l[2].val % 2 = 0
                [] i = 3 -> Is(l, 3, "rd", b, 12)
                [] i = 4 -> IF ok THEN Is(l, 4, "wr", b, 12)
                                  ELSE Is(l, 4, "rd", b, 20)
                [] i = 5 -> IF ok THEN Is(l, 5, "rd", b, 20)
                                  ELSE Is(l, 5, "wr", b, 20) /\ l[5].val % 2 = 1
                [] i = 6 -> ok /\ Is(l, 6, "wr", b, 20) /\ l[6].val % 2 = 1

\* C11: the accesses of a call that passed the checks come in the order
\* read lock, write lock with bit 0 clear, read control, write control
\* (only after a successful control read), read lock, write lock with bit
\* 0 set; the call returns after all six, or after the five left when the
\* control read failed.
C11_AccessOrder ==
    (pc[1] # "idle" /\ HadBase(1)) =>
        /\ InOrder(log[1], pre[1].base)
        /\ Returned(1) =>
             Len(log[1]) = IF log[1][3].rc = 0 THEN 6 ELSE 5

\* the control read failed: no control write, and the closing lock read
\* and write were issued before the return
C11_Witness ==
    /\ Returned(1) /\ HadBase(1)
    /\ Len(log[1]) = 5
    /\ log[1][3].rc # 0
    /\ Hits(log[1], "wr", CtrlAddr(1)) = {}
    /\ log[1][5].k = "wr" /\ log[1][5].addr = LockAddr(1)
    /\ log[1][5].val % 2 = 1

\* bit b (a power of two) of word v
BitOf(v, b) == (v \div b) % 2
\* word v with bit b set, and with bit b cleared
WithBit(v, b) == v + b * (1 - BitOf(v, b))
WithoutBit(v, b) == v - b * BitOf(v, b)

\* C12: the value written to the control register is the value just read
\* with only the target bit changed, set by an enable and cleared by a
\* disable; from the unlock write to the closing lock write the lock bit is
\* clear, so the write reaches the register, and at return the lock bit is
\* set.
C12_WrittenValue ==
    HadBase(1) =>
        LET l == log[1]
        IN  /\ Len(l) >= 3 /\ l[3].rc = 0 => l[3].val = pre[1].ctrl
            /\ Len(l) >= 4 /\ l[4].addr = CtrlAddr(1) =>
                 /\ l[4].val = IF op[1].enable
                               THEN WithBit(l[3].val, op[1].feature)
                               ELSE WithoutBit(l[3].val, op[1].feature)
                 /\ cfg[CtrlAddr(1)] = IF l[4].rc = 0 THEN l[4].val
                                       ELSE pre[1].ctrl
            /\ pc[1] \in {"ctrl_rd", "ctrl_wr", "lock_rd", "lock_wr"} =>
                 ~LockBitSet(1)
            /\ Returned(1) => LockBitSet(1)

\* enable memory-access on control 0x0003 wrote 0x0007, the lock register
\* went from set to clear and back to set
C12_Witness ==
    /\ Returned(1) /\ HadBase(1) /\ op[1].name = "mem_enable"
    /\ pre[1].ctrl = 3 /\ pre[1].lock % 2 = 1
    /\ log[1][2].val % 2 = 0
    /\ log[1][4].k = "wr" /\ log[1][4].val = 7 /\ log[1][4].rc = 0
    /\ cfg[CtrlAddr(1)] = 7
    /\ LockBitSet(1)

\* C13: a failed read or write of the lock register, in the unlock step or
\* in the lock step, neither ends the call early nor shows in its result:
\* the call still issues the control read, the control write (after a
\* successful control read) and the closing lock read and write, and it
\* returns the control read's code if that failed and the control write's
\* code otherwise, as it does when the lock-register accesses succeed.
C13_LockFaultsSwallowed ==
    (Returned(1) /\ HadBase(1)) =>
        LET l == log[1]
            n == Len(l)
        IN  /\ n >= 5
            /\ Is(l, 3, "rd", pre[1].base, 12)
            /\ l[3].rc = 0 => n = 6 /\ Is(l, 4, "wr", pre[1].base, 12)
            /\ l[3].rc # 0 => n = 5
            /\ Is(l, n - 1, "rd", pre[1].base, 20)
            /\ Is(l, n, "wr", pre[1].base, 20)
            /\ ret[1] = IF l[3].rc # 0 THEN l[3].rc ELSE l[4].rc
            /\ op[1].enable => status[1] = <<ret[1]>>

\* all four lock-register accesses failed, the control read and write
\* succeeded, and the enable returned 0
C13_Witness ==
    /\ Returned(1) /\ HadBase(1) /\ op[1].enable
    /\ Len(log[1]) = 6
    /\ \A i \in {1, 2, 5, 6} : log[1][i].rc # 0
    /\ log[1][3].rc = 0 /\ log[1][4].rc = 0
    /\ status[1] = <<0>>

\* caller c is between its unlock write and its closing lock write
InWindow(c) == pc[c] \in {"ctrl_rd", "ctrl_wr", "lock_rd", "lock_wr"}

\* C14: on a device whose lock bit was set to begin with, and with the
\* lock-register accesses succeeding, the lock bit of a capability region
\* is clear only while some call on that region is between its unlock
\* write and its closing lock write, also when the accesses of two callers
\* interleave; with no call in progress the lock bit is set.
C14_UnlockedOnlyInsideCall ==
    \A b \in Slots :
        cfg[b + 20] % 2 = 0 =>
            \E c \in Callers : InWindow(c) /\ pre[c].base = b

\* both callers are inside their windows at once and the lock bit is clear
C14_Witness ==
    /\ InWindow(1) /\ InWindow(2)
    /\ pc[1] = "lock_wr" /\ pc[2] = "ctrl_wr"
    /\ cfg[cxl_cap + 20] % 2 = 0

\* the same in one caller's runs of any number of calls, for the devices
\* whose lock bit was set to begin with (the words at base 0 are never
\* written and keep the initial content of every region)
C14_Sequential ==
    cfg[20] % 2 = 1 =>
        \A b \in Slots :
            cfg[b + 20] % 2 = 0 => InWindow(1) /\ pre[1].base = b

\* the next register access of the call of caller c, whatever its outcome
GateStep(c) ==
    \E rc \in ConcRcs, g \in FailedReadWords :
        \/ UnlockRead(c, rc, g) \/ UnlockWrite(c, rc)
        \/ CtrlRead(c, rc, g) \/ CtrlWrite(c, rc)
        \/ LockRead(c, rc, g) \/ LockWrite(c, rc)

Reads(l) == {i \in 1..Len(l) : l[i].k = "rd"}
\* the header reads of the last discovery: its reads but the six of the report
HeaderReads ==
    IF cxl = NoResult \/ cxl = 0 THEN init_log
    ELSE SubSeq(init_log, 1, Len(init_log) - 6)

\* C15: a call makes a fixed number of register accesses and then returns:
\* none when the cached offset is 0 or the topology check fails, five
\* (three reads, two writes) when the control read failed, six (three
\* reads, three writes) otherwise; while it runs it has made fewer than six
\* and its next access is never blocked.  The locator reads the two header
\* words of vendor-specific entries only, each entry at most once and in
\* chain order.
C15_BoundedAccesses ==
    /\ Returned(1) =>
         LET l == log[1]
         IN  IF pre[1].base = 0 \/ devfn # 0 \/ pcie_type # 9
             THEN l = <<>>
             ELSE IF l[3].rc # 0
             THEN /\ Len(l) = 5
                  /\ Cardinality(Reads(l)) = 3 /\ Cardinality(Writes(l)) = 2
             ELSE /\ Len(l) = 6
                  /\ Cardinality(Reads(l)) = 3 /\ Cardinality(Writes(l)) = 3
    /\ InProgress(1) => Len(log[1]) < 6 /\ ENABLED GateStep(1)
    /\ LET h == HeaderReads
       IN  /\ Len(h) % 2 = 0
           /\ \A k \in 1..(Len(h) \div 2) :
                 LET p == h[2 * k - 1] - 4
                 IN  /\ h[2 * k] = p + 8
                     /\ \E i \in 1..Len(chain) :
                           chain[i].pos = p /\ chain[i].cap = 35
                     /\ k > 1 => IndexOf(chain, h[2 * k - 3] - 4)
                                   < IndexOf(chain, p)

\* a call of six accesses returned on a device whose discovery looked at
\* two vendor-specific entries
C15_Witness ==
    /\ Returned(1) /\ HadBase(1)
    /\ Len(log[1]) = 6
    /\ Len(HeaderReads) = 4
    /\ Len(init_log) = 10

\* C16 as stated: with hardware that ignores control-register writes while
\* the lock bit is set, from any initial lock state and with lock-register
\* transport failures allowed, an enable that returns success leaves the
\* target bit set in the control register, and a disable whose control read
\* and write did not fail leaves it clear.
C16_SuccessMeansEffect ==
    (Returned(1) /\ HadBase(1)) =>
        IF op[1].enable
        THEN status[1] = <<0>> => HasBits(cfg[CtrlAddr(1)], op[1].feature)
        ELSE (~Failed(log[1], "rd", CtrlAddr(1)) /\ ~Failed(log[1], "wr", CtrlAddr(1)))
             => ~HasBits(cfg[CtrlAddr(1)], op[1].feature)

\* an enable found the lock set, had its unlock write fail, wrote the
\* control register without a transport error and returned success, and the
\* target bit is not set
C16_Witness ==
    /\ Returned(1) /\ HadBase(1)
    /\ op[1].name = "mem_enable"
    /\ pre[1].lock % 2 = 1
    /\ Failed(log[1], "wr", LockAddr(1))
    /\ Clean(SubSeq(log[1], 3, 4))
    /\ status[1] = <<0>>
    /\ ~HasBits(cfg[CtrlAddr(1)], PCI_CXL_MEM)

\* the control write was issued while the lock bit was clear
WroteUnlocked(c) == pre[c].lock % 2 = 0 \/ log[c][2].rc = PCIBIOS_SUCCESSFUL

\* the extent of the failure: the effect is missing only when the call found
\* the lock set and its unlock write failed
C16_EffectWhenUnlocked ==
    (Returned(1) /\ HadBase(1) /\ WroteUnlocked(1)) => C16_SuccessMeansEffect

\* a step of a call of caller c: its entry or one of its register accesses
StepOf(c) == pc'[c] # pc[c] \/ log'[c] # log[c]
\* the bits of a word other than those of mask
Others(v, mask) == BitAnd(v, BitNot(mask))

\* what a call has left alone when it returns
OtherCtrlBitsKept(c) ==
    Others(cfg[CtrlAddr(c)], op[c].feature) = Others(pre[c].ctrl, op[c].feature)
OtherLockBitsKept(c) ==
    Others(cfg[LockAddr(c)], PCI_CXL_CONFIG_LOCK)
        = Others(pre[c].lock, PCI_CXL_CONFIG_LOCK)
\* the writes of a call go to the control and the lock register at the
\* cached offset
OnlyCtrlAndLockWritten(c) ==
    \A i \in Writes(log[c]) :
        /\ log[c][i].addr \in {cxl_cap + PCI_CXL_CTRL, cxl_cap + PCI_CXL_LOCK}
        /\ pre[c].base = cxl_cap
\* a step changes no register but those two, and not the cached offset
RestUntouched ==
    /\ cxl_cap' = cxl_cap
    /\ \A a \in Addrs \ {cxl_cap + PCI_CXL_CTRL, cxl_cap + PCI_CXL_LOCK} :
          cfg'[a] = cfg[a]

\* C17 as stated: a call writes only the control register and the lock
\* register at the cached offset; when it has returned, every control bit but
\* the target bit and every lock-register bit but bit 0 is as it was at
\* entry; and no step of a call changes the capability-flags, status,
\* secondary-control or secondary-status register or the cached offset.
C17_Frame ==
    /\ [](OnlyCtrlAndLockWritten(1))
    /\ []((Returned(1) /\ HadBase(1)) =>
             (OtherCtrlBitsKept(1) /\ OtherLockBitsKept(1)))
    /\ [][StepOf(1) => RestUntouched]_vars

\* a call whose lock-register read failed has returned, its lock-register
\* write went through, and bits of the lock register other than bit 0 differ
\* from those at entry
C17_Witness ==
    /\ Returned(1) /\ HadBase(1)
    /\ Failed(log[1], "rd", LockAddr(1))
    /\ log[1][Len(log[1])].rc = PCIBIOS_SUCCESSFUL
    /\ ~OtherLockBitsKept(1)

\* the extent of the failure: everything of the frame but the lock-register
\* bits holds whatever fails
C17_FrameButLockBits ==
    /\ [](OnlyCtrlAndLockWritten(1))
    /\ []((Returned(1) /\ HadBase(1)) => OtherCtrlBitsKept(1))
    /\ [][StepOf(1) => RestUntouched]_vars

\* and the lock-register bits are kept by a call whose lock-register reads
\* succeeded
C17_LockBitsKeptOnGoodReads ==
    (Returned(1) /\ HadBase(1) /\ ~Failed(log[1], "rd", LockAddr(1)))
        => OtherLockBitsKept(1)

\* a step of pci_cxl_init
InitStep == init_runs' # init_runs
\* the device pci_cxl_init and the feature gate accept
Eligible == is_pcie /\ devfn = 0 /\ pcie_type = 9
\* the reads of the last discovery that are of a capability register
CapRegReads ==
    {i \in 1..Len(init_log) :
        \E b \in Slots \cup {0}, o \in RegOffsets : init_log[i] = b + o}

\* C18: the cached capability offset is written only by pci_cxl_init and
\* only with a non-zero result of the locator; so, starting from offset 0, a
\* non-zero cached offset implies a PCIe device with devfn 0 and the role
\* root-complex-integrated-endpoint, and the offset is the position of a
\* list entry with the key (0x1e98, 0x0); and on a non-PCIe device, a device
\* failing the devfn/role check or a list without such an entry,
\* pci_cxl_init leaves the cached offset as it was and reads no capability
\* register.
C18_CachedOffset ==
    /\ [](cxl_cap # 0 =>
            /\ Eligible
            /\ \E i \in KeyEntries : chain[i].pos = cxl_cap)
    /\ [][cxl_cap' # cxl_cap =>
            /\ InitStep
            /\ cxl' \notin {0, NoResult}
            /\ cxl_cap' = cxl']_vars
    /\ [][(InitStep /\ (~Eligible \/ KeyEntries = {})) =>
            /\ cxl_cap' = cxl_cap
            /\ cxl'\in {0, NoResult}]_vars
    /\ []((init_runs > 0 /\ (~Eligible \/ KeyEntries = {})) =>
            /\ CapRegReads = {}
            /\ ~Eligible => init_log = <<>>)

\* discovery cached the offset of the second entry of the list, the first
\* being a vendor-specific entry of another vendor, and a toggle has since
\* run to its end on that offset
C18_Witness ==
    /\ Len(chain) = 2
    /\ cxl_cap = chain[2].pos
    /\ KeyEntries = {2}
    /\ Eligible
    /\ Returned(1) /\ pre[1].base = cxl_cap /\ Len(log[1]) = 6

\* discovery has run on a device it does not accept whose list holds the key
C18_WitnessRefused ==
    /\ init_runs > 0
    /\ is_pcie /\ devfn = 0 /\ pcie_type # 9
    /\ KeyEntries # {}
    /\ cxl_cap = 0
    /\ init_log = <<>>

\* a call is synchronous code: once entered, its next access is issued
SpecFair == Spec /\ WF_vars(GateStep(1))

\* under that scheduling every call in progress returns
C15_Terminates == InProgress(1) ~> Returned(1)

====
